---- MODULE Spec2Model ----
(***************************************************************************)
(* Model of the session / token authentication service of nodeapi-example: *)
(* the /user-auth routes (login, verify-session, logout), the stores they  *)
(* use (users, sessions) and the crypto helpers of utils.js.               *)
(*                                                                         *)
(* Time is counted in units of 7 days, the life of a session.  A handler   *)
(* is cut at its awaits where the claims need the interleaving             *)
(* (verify-session); the other handlers run as one step around their       *)
(* single database write.                                                  *)
(*                                                                         *)
(* Spec is the service over the weeks of a session's life; TokenSpec is    *)
(* the service over the hours of a token's life, with verify-token;        *)
(* CryptoSpec calls encrypt and decrypt of utils.js on their own, and      *)
(* StoreSpec calls SessionModel on its own.  FairSpec is Spec with the     *)
(* steps the service takes by itself (time, the continuations of a         *)
(* verify-session) taken fairly.  UsersSpec is the /users routes with two  *)
(* clients posting at once, GateSpec is every route behind the API-key     *)
(* middleware, requests served one at a time, and ChurnSpec is Spec with   *)
(* users created and expired rows swept.                                   *)
(***************************************************************************)
EXTENDS Integers, Sequences, FiniteSets, TLC

\* ------------------------------------------------------------- bounds
MaxTime == 2          \* the clock stops advancing here
MaxSessionId == 2     \* logins are possible while the serial is below this
MaxHour == 2          \* the hours stop advancing here
MaxUserId == 4        \* users are created while the serial is below this

\* ---------------------------------------------------------- constants
\* the clock counts in units of 7 days, the life of a session
SESSION_TTL == 1                           \* 7 * 24 * 60 * 60 * 1000 ms
HOURS_PER_WEEK == 168                      \* 7 * 24
JWT_TTL == 1                               \* expiresIn: "1hr", in hours
SESSION_SECRET == "session-secret"
JWT_SECRET == "jwt-secret"
Null == "<null>"
Undefined == "<undefined>"
FarFuture == MaxTime + SESSION_TTL + 1     \* a date no run of the model reaches
API_KEY == "key"
\* the clients that may have a POST /users under way at the same time
Clients == {"c1", "c2"}
IdlePost == [pc |-> "idle", email |-> Undefined, password |-> Undefined]

Emails == {"a@x", "b@x", "zz@x"}
Passwords == {"pw1", "pw2"}
Ivs == {"iv1"}                             \* crypto.randomBytes(16)
\* whether the cipher calls of encrypt work: Spec and TokenSpec follow the
\* logins in which they do, CryptoSpec has the calls in which they throw too
CipherOutcomes == {TRUE}

Range(seq) == {seq[i] : i \in 1..Len(seq)}

\* JavaScript truthiness of a request field: undefined and "" are falsy
Falsy(x) == x \in {Undefined, ""}

VARIABLES
  users,           \* rows of table users
  sessions,        \* rows of table sessions
  nextSessionId,   \* serial of sessions.id
  clock,           \* Date.now()
  vs,              \* the verify-session request in flight (pc = "idle": none)
  resp,            \* the last response sent, with what its handler did
  issued,          \* history: envelopes returned by a 200 login, with the user
  loggedOut,       \* history: envelopes whose logout deleted by id and answered 200
  hour,            \* Date.now(): the hours since the clock last advanced
  ret,             \* the last call of a function of utils.js, with its result,
                   \* or what validateApiKey decided for the request being served
  env,             \* process.env
  posts,           \* the POST /users request of each client (pc = "idle": none)
  nextUserId       \* serial of users.id

vars == <<users, sessions, nextSessionId, clock, vs, resp, issued, loggedOut,
          hour, ret, env, posts, nextUserId>>

\* ------------------------------------------------ password hashing
\* crypto.pbkdf2Sync(password, salt, 10000, 64, 'sha512'): a value that
\* determines and is determined by (password, salt)
PBKDF2(password, salt) == [pw |-> password, salt |-> salt]
NullHash == [pw |-> Null, salt |-> Null]

\* pbkdf2Sync rejects a salt that is not a string or a buffer (TypeError)
pbkdf2Sync_throws(password, salt) == salt = Null

hashPassword(password, salt) == [hash |-> PBKDF2(password, salt), salt |-> salt]

verifyPassword_AcceptAll(password, storedHash, storedSalt) == TRUE

verifyPassword(password, storedHash, storedSalt) ==
  PBKDF2(password, storedSalt) = storedHash

\* ------------------------------------------------ session envelopes
\* JSON values: {sessionId, expiresAt} with expiresAt a string, the same with
\* expiresAt a Date object, {} and null; "invalid" is text that is not JSON
Payload(sid, exp) == [kind |-> "session", sessionId |-> sid, expiresAt |-> exp]
DatePayload(sid, exp) ==
  [kind |-> "session-date", sessionId |-> sid, expiresAt |-> exp]
EmptyObject == [kind |-> "empty", sessionId |-> 0, expiresAt |-> 0]
NotJson == [kind |-> "invalid", sessionId |-> 0, expiresAt |-> 0]
NullPayload == [kind |-> "null", sessionId |-> 0, expiresAt |-> 0]

\* JSON.stringify writes a Date as its ISO string
JSON_stringify(x) ==
  IF x.kind = "session-date" THEN Payload(x.sessionId, x.expiresAt) ELSE x

\* JSON.parse throws on text that is not JSON; decrypt's catch returns null
JSON_parse(text) == IF text.kind = "invalid" THEN NullPayload ELSE text

\* a value of the session field.  fmt "cbc": a string with ':', of which the
\* first part is the hex of iv and the second the hex of the AES-256-CBC
\* ciphertext of payload under key and iv; fmt "b64": a string without ':',
\* the base64 of payload; fmt "bytes": an array of the bytes of payload;
\* fmt "number": a number; fmt "missing": no value.
\* mark tells how a "cbc" string differs from the one built from (key, iv,
\* payload): "none"; "extra": a further ':' part follows the ciphertext;
\* "no-iv" and "no-ct": the part is empty; "iv-short": the IV part is not 32
\* hex digits; "iv-digit": the IV part is XORed where the first plaintext
\* block holds the digit of sessionId, by the difference of two digits;
\* "iv-brace": XORed where that block holds the opening brace; "ct-last": the
\* last ciphertext block, which holds the padding, is changed
Envelope(fmt, key, iv, payload) ==
  [fmt |-> fmt, key |-> key, iv |-> iv, payload |-> payload, mark |-> "none"]
MissingSession == Envelope("missing", Null, Null, NullPayload)
Marked(envelope, mark) == [envelope EXCEPT !.mark = mark]

encrypt_OtherKey(payload, iv, cipherOk) ==
  Envelope("cbc", "fallback-session-secret-key", iv, payload)

encrypt_NoFinal(payload, iv, cipherOk) ==
  Marked(Envelope("cbc", SESSION_SECRET, iv, JSON_stringify(payload)), "ct-last")

\* lines 49-67; cipherOk: the cipher calls of the try block did not throw
encrypt(payload, iv, cipherOk) ==
  IF cipherOk
  THEN Envelope("cbc", SESSION_SECRET, iv, JSON_stringify(payload))
  ELSE Envelope("b64", Null, Null, JSON_stringify(payload))

\* CBC: the first plaintext block is XORed with the IV, so a difference put
\* into the IV comes out in that block, which begins {"sessionId":<digit>
OtherDigit(d) == IF d = 1 THEN 2 ELSE 1
FirstBlockXor(text, mark) ==
  CASE mark = "iv-digit" /\ text.kind = "session" ->
         [text EXCEPT !.sessionId = OtherDigit(@)]
    [] mark \in {"iv-digit", "iv-brace"} -> NotJson
    [] OTHER -> text

decrypt_NoFallback(encryptedText) ==
  IF encryptedText.fmt = "cbc" /\ encryptedText.key = SESSION_SECRET
     /\ encryptedText.mark \in {"none", "extra"}
  THEN JSON_parse(encryptedText.payload)
  ELSE NullPayload

\* lines 77-105
decrypt(encryptedText) ==
  \* encryptedText.includes is not a function: TypeError, caught
  IF encryptedText.fmt \in {"number", "missing"}
  THEN NullPayload
  ELSE IF encryptedText.fmt = "cbc"
  THEN \* [ivHex, encrypted] = split(':'): further parts are dropped
       IF encryptedText.mark \in {"no-iv", "no-ct"}
       THEN NullPayload
       \* createDecipheriv throws on an IV that is not 16 bytes
       ELSE IF encryptedText.mark = "iv-short"
       THEN NullPayload
       \* decipher.final throws on the padding
       ELSE IF encryptedText.key # SESSION_SECRET
               \/ encryptedText.mark = "ct-last"
       THEN NullPayload
       ELSE JSON_parse(FirstBlockXor(encryptedText.payload,
                                     encryptedText.mark))
  \* Buffer.from(encryptedText, 'base64'), then JSON.parse
  ELSE JSON_parse(encryptedText.payload)

\* ------------------------------------------------ JWT
\* Date.now() in hours
Now == clock * HOURS_PER_WEEK + hour

\* a value of the Authorization header after "Bearer " is taken off: a signed
\* token {id, iat, exp}, text that is no token, or nothing
Token(kind, id, iat, exp, key) ==
  [kind |-> kind, id |-> id, iat |-> iat, exp |-> exp, key |-> key]
NoToken == Token("none", 0, 0, 0, Null)
MalformedToken == Token("malformed", 0, 0, 0, Null)

\* lines 65-71: jwt.sign({ id }, secret, { expiresIn: "1hr" })
jwt_sign(id, secret) == Token("jwt", id, Now, Now + JWT_TTL, secret)

\* jwt.verify: the decoded payload, or <<>> where it throws (no token,
\* malformed, signature of another key, exp reached)
jwt_verify(token, secret) ==
  IF token.kind = "jwt" /\ token.key = secret /\ Now < token.exp
  THEN <<[id |-> token.id, iat |-> token.iat, exp |-> token.exp]>>
  ELSE <<>>

\* ------------------------------------------------ UserModel
\* the result of .first(): <<row>> or <<>> (null)
UserModel_findByEmail(email) ==
  IF \E u \in users : u.email = email
  THEN <<CHOOSE u \in users : u.email = email>>
  ELSE <<>>

UserModel_findById(id) ==
  IF \E u \in users : u.id = id
  THEN <<CHOOSE u \in users : u.id = id>>
  ELSE <<>>

\* select("*"): whole rows
UserModel_findAll == users

\* lines 79-97: insert ... returning("*").  users.email is unique: the insert
\* of a taken email throws; the serial is spent either way
UserModel_create(userData) ==
  IF \E u \in users : u.email = userData.email
  THEN [threw |-> TRUE, user |-> <<>>, users |-> users,
        nextUserId |-> nextUserId + 1]
  ELSE
    LET row == [id |-> nextUserId, email |-> userData.email,
                first_name |-> userData.first_name,
                last_name |-> userData.last_name,
                password_hash |-> userData.password, salt |-> userData.salt]
    IN  [threw |-> FALSE, user |-> <<row>>, users |-> users \cup {row},
         nextUserId |-> nextUserId + 1]

\* lines 108-122: update ... returning("*"); a field left undefined is not
\* written.  <<>> is null: no row of that id
UserModel_update(id, userData) ==
  LET found == UserModel_findById(id) IN
  IF found = <<>>
  THEN [threw |-> FALSE, user |-> <<>>, users |-> users]
  ELSE IF userData.email = Undefined
  THEN [threw |-> FALSE, user |-> found, users |-> users]
  ELSE IF \E u \in users : u.id # id /\ u.email = userData.email
  THEN [threw |-> TRUE, user |-> <<>>, users |-> users]
  ELSE
    LET row == [found[1] EXCEPT !.email = userData.email] IN
    [threw |-> FALSE, user |-> <<row>>,
     users |-> {u \in users : u.id # id} \cup {row}]

\* ------------------------------------------------ SessionModel
SessionRow(id, userId, expiresAt) ==
  [id |-> id, user_id |-> userId, expires_at |-> expiresAt]

SessionModel_create_ReuseId(userId, expiresAt) ==
  LET free == CHOOSE i \in 1..(MaxSessionId + 2) :
                /\ \A s \in sessions : s.id # i
                /\ \A j \in 1..(i - 1) : \E s \in sessions : s.id = j
      row == SessionRow(free, userId, expiresAt)
  IN  [session |-> row, sessions |-> sessions \cup {row},
       nextSessionId |-> nextSessionId + 1]

SessionModel_create_Replace(userId, expiresAt) ==
  LET row == SessionRow(nextSessionId, userId, expiresAt)
  IN  [session |-> row,
       sessions |-> {s \in sessions : s.user_id # userId} \cup {row},
       nextSessionId |-> nextSessionId + 1]

SessionModel_create_OwnDate(userId, expiresAt) ==
  LET row == SessionRow(nextSessionId, userId, clock + SESSION_TTL + SESSION_TTL)
  IN  [session |-> row, sessions |-> sessions \cup {row},
       nextSessionId |-> nextSessionId + 1]

SessionModel_create(userId, expiresAt) ==
  LET row == SessionRow(nextSessionId, userId, expiresAt)
  IN  [session |-> row, sessions |-> sessions \cup {row},
       nextSessionId |-> nextSessionId + 1]

SessionModel_findById(id) ==
  IF \E s \in sessions : s.id = id
  THEN <<CHOOSE s \in sessions : s.id = id>>
  ELSE <<>>

SessionModel_deleteById_Nothing(id) == sessions

SessionModel_deleteById(id) == {s \in sessions : s.id # id}

SessionModel_isValid_Inclusive(id) ==
  [valid |-> \E s \in sessions : s.id = id /\ s.expires_at >= clock,
   sessions |-> sessions]

\* lines 265-272: a select; the answer and the store after it
SessionModel_isValid(id) ==
  [valid |-> \E s \in sessions : s.id = id /\ s.expires_at > clock,
   sessions |-> sessions]

\* lines 231-237: del() where expires_at < new Date(); the count of rows
\* deleted and the store after it
SessionModel_deleteExpired ==
  [deleted |-> Cardinality({s \in sessions : s.expires_at < clock}),
   sessions |-> {s \in sessions : ~(s.expires_at < clock)}]

UserModel_delete_NoCascade(id) ==
  [deleted |-> \E u \in users : u.id = id,
   users |-> {u \in users : u.id # id},
   sessions |-> sessions]

\* deleting a user row removes its sessions (foreign key ON DELETE CASCADE)
UserModel_delete(id) ==
  [deleted |-> \E u \in users : u.id = id,
   users |-> {u \in users : u.id # id},
   sessions |-> {s \in sessions : s.user_id # id}]

\* ------------------------------------------------ responses
ErrorBody(msg) == [error |-> msg]
\* what the model notes about a verify-session request as it runs: the payload
\* decrypt returned, whether the envelope's and the row's dates had passed when
\* the handler compared them, the rows of that id in the store when findById
\* ran, whether a logout of the same envelope had answered 200 before the
\* request began, the user rows the handler's user query met in the store,
\* whether the envelope is one a login returned and not yet expired at the
\* response, the time of a login, and the hour of a verify-token
NoAux == [dec |-> NullPayload, envExpired |-> FALSE, rowExpired |-> FALSE,
          lookup |-> {}, afterLogout |-> FALSE, account |-> {},
          live |-> FALSE, at |-> 0, now |-> 0]

Response(op, req, status, body, calls, added, removed, aux) ==
  [op |-> op, req |-> req, status |-> status, body |-> body, calls |-> calls,
   added |-> added, removed |-> removed, aux |-> aux]

NoRequest == [email |-> Undefined, password |-> Undefined,
              session |-> MissingSession, id |-> 0, token |-> NoToken]

NoResponse == Response("none", NoRequest, 0, ErrorBody(""), <<>>, {}, {}, NoAux)

\* resp holds the last response of a request that ran with no verify-session
\* in flight, or of the verify-session in flight
Observed(r) == IF vs.pc = "idle" THEN r ELSE resp

LoginRequest(email, password) ==
  [NoRequest EXCEPT !.email = email, !.password = password]
SessionRequest(session) == [NoRequest EXCEPT !.session = session]
IdRequest(id) == [NoRequest EXCEPT !.id = id]
TokenRequest(token) == [NoRequest EXCEPT !.token = token]

\* ------------------------------------------------ POST /user-auth
LoginResult(status, body, calls, store) ==
  [status |-> status, body |-> body, calls |-> calls,
   sessions |-> store.sessions, nextSessionId |-> store.nextSessionId]

login(email, password, iv, cipherOk) ==
  LET same == [sessions |-> sessions, nextSessionId |-> nextSessionId] IN
  IF Falsy(email) \/ Falsy(password)
  THEN LoginResult(400, ErrorBody("Email and password are required"), <<>>, same)
  ELSE
    LET found == UserModel_findByEmail(email)
        c1 == <<"UserModel.findByEmail">>
    IN
    IF found = <<>>
    THEN LoginResult(404, ErrorBody("User not found"), c1, same)
    ELSE
      LET user == found[1]
          c2 == Append(c1, "verifyPassword")
      IN
      IF pbkdf2Sync_throws(password, user.salt)
      THEN LoginResult(500, ErrorBody("Internal server error"), c2, same)
      ELSE IF ~verifyPassword(password, user.password_hash, user.salt)
      THEN LoginResult(401, ErrorBody("Invalid password"), c2, same)
      ELSE
        LET token == jwt_sign(user.id, JWT_SECRET)
            expiresAt == clock + SESSION_TTL
            created == SessionModel_create(user.id, expiresAt)
            encryptedSession ==
              encrypt(Payload(created.session.id, expiresAt), iv, cipherOk)
            safeUserData == [id |-> user.id]
            c3 == c2 \o <<"jwt.sign", "SessionModel.create", "encrypt">>
        IN  LoginResult(200,
                        [user |-> safeUserData, token |-> token,
                         session |-> encryptedSession,
                         sessionExpires |-> expiresAt],
                        c3, created)

Login(email, password, iv, cipherOk) ==
  /\ nextSessionId <= MaxSessionId
  /\ LET r == login(email, password, iv, cipherOk) IN
       /\ sessions' = r.sessions
       /\ nextSessionId' = r.nextSessionId
       /\ resp' = Observed(Response("login", LoginRequest(email, password),
                                    r.status, r.body, r.calls,
                                    r.sessions \ sessions,
                                    sessions \ r.sessions,
                                    [NoAux EXCEPT
                                       !.account = {u \in users :
                                                      u.email = email},
                                       !.at = clock]))
       /\ issued' = IF r.status = 200
                    THEN issued \cup
                           {[session |-> r.body.session,
                             token |-> r.body.token,
                             userId |-> u.id, sessionId |-> row.id,
                             expiresAt |-> row.expires_at] :
                              u \in {x \in users : x.email = email},
                              row \in r.sessions \ sessions}
                    ELSE issued
  /\ UNCHANGED <<users, clock, vs, loggedOut, hour, ret,
                 env, posts, nextUserId>>


\* ------------------------------------------------ POST /user-auth/verify-token
verifyToken_CheckUser(token) ==
  LET decoded == jwt_verify(token, JWT_SECRET) IN
  IF decoded = <<>> \/ UserModel_findById(token.id) = <<>>
  THEN [status |-> 401, body |-> ErrorBody("Invalid token"),
        calls |-> <<"jwt.verify">>]
  ELSE [status |-> 200,
        body |-> [userId |-> decoded[1].id, expiresAt |-> decoded[1].exp],
        calls |-> <<"jwt.verify">>]

verifyToken(token) ==
  LET decoded == jwt_verify(token, JWT_SECRET) IN
  IF decoded = <<>>
  THEN [status |-> 401, body |-> ErrorBody("Invalid token"),
        calls |-> <<"jwt.verify">>]
  ELSE [status |-> 200,
        body |-> [userId |-> decoded[1].id, expiresAt |-> decoded[1].exp],
        calls |-> <<"jwt.verify">>]

\* what a client can send as a token: nothing, text that is no token, a token
\* it signed with a key of its own, or a token a login returned
TokenInputs ==
  {NoToken, MalformedToken, Token("jwt", 1, 0, FarFuture * HOURS_PER_WEEK, "other-secret")}
    \cup {i.token : i \in issued}

VerifyToken(token) ==
  /\ LET r == verifyToken(token) IN
       resp' = Observed(Response("verify-token", TokenRequest(token), r.status,
                                 r.body, r.calls, {}, {},
                                 [NoAux EXCEPT !.now = Now]))
  /\ UNCHANGED <<users, sessions, nextSessionId, clock, vs, issued, loggedOut,
                 hour, ret,
                 env, posts, nextUserId>>

\* ------------------------------------------------ POST /user-auth/verify-session
IdleVs == [pc |-> "idle", session |-> MissingSession, dec |-> NullPayload,
           dbSession |-> <<>>, calls |-> <<>>, aux |-> NoAux]

verifySessionStart_NoEnvelopeCheck(session) ==
  IF session = MissingSession
  THEN [next |-> "respond", status |-> 400,
        body |-> ErrorBody("Session is required"), calls |-> <<>>,
        dec |-> NullPayload]
  ELSE IF decrypt(session).kind = "null"
  THEN [next |-> "respond", status |-> 401,
        body |-> ErrorBody("Invalid session"), calls |-> <<"decrypt">>,
        dec |-> decrypt(session)]
  ELSE [next |-> "findById", status |-> 0, body |-> ErrorBody(""),
        calls |-> <<"decrypt">>, dec |-> decrypt(session)]

\* lines 120-139: the synchronous part, up to the first query
verifySessionStart(session) ==
  IF session = MissingSession
  THEN [next |-> "respond", status |-> 400,
        body |-> ErrorBody("Session is required"), calls |-> <<>>,
        dec |-> NullPayload]
  ELSE
    LET decryptedSession == decrypt(session)
        c1 == <<"decrypt">>
    IN
    IF decryptedSession.kind = "null"
    THEN [next |-> "respond", status |-> 401,
          body |-> ErrorBody("Invalid session"), calls |-> c1,
          dec |-> decryptedSession]
    \* new Date(undefined) is an invalid date; it compares false with <=
    ELSE IF decryptedSession.kind = "session"
            /\ decryptedSession.expiresAt <= clock
    THEN [next |-> "respond", status |-> 401,
          body |-> ErrorBody("Session expired"), calls |-> c1,
          dec |-> decryptedSession]
    ELSE [next |-> "findById", status |-> 0, body |-> ErrorBody(""),
          calls |-> c1, dec |-> decryptedSession]

verifySessionLookup_Throw(decryptedSession) ==
  IF decryptedSession.kind # "session"
     \/ SessionModel_findById(decryptedSession.sessionId) = <<>>
  THEN [next |-> "respond", status |-> 500,
        body |-> ErrorBody("Internal server error"), dbSession |-> <<>>]
  ELSE
    LET dbSession == SessionModel_findById(decryptedSession.sessionId) IN
    IF dbSession[1].expires_at <= clock
    THEN [next |-> "deleteById", status |-> 0, body |-> ErrorBody(""),
          dbSession |-> dbSession]
    ELSE [next |-> "findUser", status |-> 0, body |-> ErrorBody(""),
          dbSession |-> dbSession]

\* lines 142-153: SessionModel.findById answers, the row is checked
verifySessionLookup(decryptedSession) ==
  \* knex refuses an undefined binding in where({ id })
  IF decryptedSession.kind # "session"
  THEN [next |-> "respond", status |-> 500,
        body |-> ErrorBody("Internal server error"), dbSession |-> <<>>]
  ELSE
    LET dbSession == SessionModel_findById(decryptedSession.sessionId) IN
    IF dbSession = <<>>
    THEN [next |-> "respond", status |-> 401,
          body |-> ErrorBody("Session not found"), dbSession |-> dbSession]
    ELSE IF dbSession[1].expires_at <= clock
    THEN [next |-> "deleteById", status |-> 0, body |-> ErrorBody(""),
          dbSession |-> dbSession]
    ELSE [next |-> "findUser", status |-> 0, body |-> ErrorBody(""),
          dbSession |-> dbSession]

\* lines 151-152: SessionModel.deleteById answers
verifySessionCleanup(decryptedSession) ==
  [status |-> 401, body |-> ErrorBody("Session expired"),
   sessions |-> SessionModel_deleteById(decryptedSession.sessionId)]

verifySessionUser_Renew(decryptedSession, dbSession) ==
  LET found == UserModel_findById(dbSession.user_id)
      renewed == [dbSession EXCEPT !.expires_at = clock + SESSION_TTL]
  IN  IF found = <<>>
      THEN [status |-> 401, body |-> ErrorBody("User not found"),
            sessions |-> sessions]
      ELSE [status |-> 200,
            body |-> [userId |-> found[1].id,
                      user |-> [id |-> found[1].id, email |-> found[1].email,
                                first_name |-> found[1].first_name,
                                last_name |-> found[1].last_name],
                      expiresAt |-> renewed.expires_at],
            sessions |-> {IF s.id = dbSession.id THEN renewed ELSE s :
                            s \in sessions}]

verifySessionUser_LeakRow(decryptedSession, dbSession) ==
  LET found == UserModel_findById(dbSession.user_id)
  IN  IF found = <<>>
      THEN [status |-> 401, body |-> ErrorBody("User not found"),
            sessions |-> sessions]
      ELSE [status |-> 200,
            body |-> [userId |-> found[1].id, user |-> found[1],
                      expiresAt |-> dbSession.expires_at],
            sessions |-> sessions]

verifySessionUser_TrustEnvelope(decryptedSession, dbSession) ==
  LET found == UserModel_findById(dbSession.user_id)
  IN  IF found = <<>>
      THEN [status |-> 401, body |-> ErrorBody("User not found"),
            sessions |-> sessions]
      ELSE [status |-> 200,
            body |-> [userId |-> found[1].id,
                      user |-> [id |-> found[1].id, email |-> found[1].email,
                                first_name |-> found[1].first_name,
                                last_name |-> found[1].last_name],
                      expiresAt |-> decryptedSession.expiresAt],
            sessions |-> sessions]

\* lines 156-172: UserModel.findById answers, the response is built
verifySessionUser(decryptedSession, dbSession) ==
  LET found == UserModel_findById(dbSession.user_id)
  IN  IF found = <<>>
      THEN [status |-> 401, body |-> ErrorBody("User not found"),
            sessions |-> sessions]
      ELSE [status |-> 200,
            body |-> [userId |-> found[1].id,
                      user |-> [id |-> found[1].id, email |-> found[1].email,
                                first_name |-> found[1].first_name,
                                last_name |-> found[1].last_name],
                      expiresAt |-> dbSession.expires_at],
            sessions |-> sessions]


\* what a client can put in the session field: nothing, an envelope a login
\* returned, or text of its own making: base64 of JSON naming the first
\* session id, base64 of {}, base64 of text that is no JSON, and an envelope
\* encrypted under a key of its own
Forged ==
  {Envelope("b64", Null, Null, Payload(1, FarFuture)),
   Envelope("b64", Null, Null, EmptyObject),
   Envelope("b64", Null, Null, NotJson),
   Envelope("cbc", "other-secret", "iv1", Payload(1, FarFuture))}

SessionInputs == {MissingSession} \cup {i.session : i \in issued} \cup Forged

VerifyAux(session, dec) ==
  [NoAux EXCEPT !.dec = dec,
                !.envExpired = (dec.kind = "session" /\ dec.expiresAt <= clock),
                !.afterLogout = (session \in loggedOut),
                !.live = \E i \in issued :
                           i.session = session /\ clock < i.expiresAt]

VerifySessionStart(session) ==
  /\ vs.pc = "idle"
  /\ LET r == verifySessionStart(session) IN
       IF r.next = "respond"
       THEN /\ resp' = Response("verify-session", SessionRequest(session),
                                r.status, r.body, r.calls, {}, {},
                                VerifyAux(session, r.dec))
            /\ vs' = vs
       ELSE /\ vs' = [pc |-> r.next, session |-> session, dec |-> r.dec,
                      dbSession |-> <<>>, calls |-> r.calls,
                      aux |-> VerifyAux(session, r.dec)]
            /\ resp' = NoResponse
  /\ UNCHANGED <<users, sessions, nextSessionId, clock, issued, loggedOut, hour, ret,
                 env, posts, nextUserId>>

VerifySessionLookup ==
  /\ vs.pc = "findById"
  /\ LET r == verifySessionLookup(vs.dec)
         calls == Append(vs.calls, "SessionModel.findById")
         rows == {s \in sessions : s.id = vs.dec.sessionId}
         aux == [vs.aux EXCEPT !.lookup = rows,
                               !.rowExpired = (\E s \in rows :
                                                 s.expires_at <= clock),
                               !.live = \E i \in issued :
                                          /\ i.session = vs.session
                                          /\ clock < i.expiresAt]
     IN
       IF r.next = "respond"
       THEN /\ resp' = Response("verify-session", SessionRequest(vs.session),
                                r.status, r.body, calls, {}, {}, aux)
            /\ vs' = IdleVs
       ELSE /\ vs' = [vs EXCEPT !.pc = r.next, !.dbSession = r.dbSession,
                                !.calls = calls, !.aux = aux]
            /\ resp' = resp
  /\ UNCHANGED <<users, sessions, nextSessionId, clock, issued, loggedOut, hour, ret,
                 env, posts, nextUserId>>

VerifySessionCleanup ==
  /\ vs.pc = "deleteById"
  /\ LET r == verifySessionCleanup(vs.dec) IN
       /\ sessions' = r.sessions
       /\ resp' = Response("verify-session", SessionRequest(vs.session),
                           r.status, r.body,
                           Append(vs.calls, "SessionModel.deleteById"),
                           r.sessions \ sessions, sessions \ r.sessions,
                           [vs.aux EXCEPT !.live = \E i \in issued :
                                                     /\ i.session = vs.session
                                                     /\ clock < i.expiresAt])
  /\ vs' = IdleVs
  /\ UNCHANGED <<users, nextSessionId, clock, issued, loggedOut, hour, ret,
                 env, posts, nextUserId>>

VerifySessionUser ==
  /\ vs.pc = "findUser"
  /\ LET r == verifySessionUser(vs.dec, vs.dbSession[1]) IN
       /\ sessions' = r.sessions
       /\ resp' = Response("verify-session", SessionRequest(vs.session),
                           r.status, r.body,
                           Append(vs.calls, "UserModel.findById"),
                           r.sessions \ sessions, sessions \ r.sessions,
                           [vs.aux EXCEPT
                              !.account = {u \in users :
                                             u.id = vs.dbSession[1].user_id},
                              !.live = \E i \in issued :
                                         /\ i.session = vs.session
                                         /\ clock < i.expiresAt])
  /\ vs' = IdleVs
  /\ UNCHANGED <<users, nextSessionId, clock, issued, loggedOut, hour, ret,
                 env, posts, nextUserId>>

\* ------------------------------------------------ POST /user-auth/logout
logout_NoValidation(session) ==
  IF decrypt(session).kind # "session"
  THEN [status |-> 200, body |-> [message |-> "Logged out successfully"],
        calls |-> <<"decrypt">>, sessions |-> sessions]
  ELSE [status |-> 200, body |-> [message |-> "Logged out successfully"],
        calls |-> <<"decrypt", "SessionModel.deleteById">>,
        sessions |-> SessionModel_deleteById(decrypt(session).sessionId)]

logout_FailClosed(session) ==
  IF session = MissingSession
  THEN [status |-> 400, body |-> ErrorBody("Session is required"),
        calls |-> <<>>, sessions |-> sessions]
  ELSE IF decrypt(session).kind # "session"
  THEN [status |-> 401, body |-> ErrorBody("Invalid session"),
        calls |-> <<"decrypt">>, sessions |-> sessions]
  ELSE [status |-> 200, body |-> [message |-> "Logged out successfully"],
        calls |-> <<"decrypt", "SessionModel.deleteById">>,
        sessions |-> SessionModel_deleteById(decrypt(session).sessionId)]

logout(session) ==
  IF session = MissingSession
  THEN [status |-> 400, body |-> ErrorBody("Session is required"),
        calls |-> <<>>, sessions |-> sessions]
  ELSE
    LET decryptedSession == decrypt(session) IN
    IF decryptedSession.kind = "null"
    THEN [status |-> 200, body |-> [message |-> "Logged out successfully"],
          calls |-> <<"decrypt">>, sessions |-> sessions]
    \* knex refuses an undefined binding in where({ id })
    ELSE IF decryptedSession.kind # "session"
    THEN [status |-> 500, body |-> ErrorBody("Internal server error"),
          calls |-> <<"decrypt", "SessionModel.deleteById">>,
          sessions |-> sessions]
    ELSE [status |-> 200, body |-> [message |-> "Logged out successfully"],
          calls |-> <<"decrypt", "SessionModel.deleteById">>,
          sessions |-> SessionModel_deleteById(decryptedSession.sessionId)]

Logout(session) ==
  /\ LET r == logout(session) IN
       /\ sessions' = r.sessions
       /\ resp' = Observed(Response("logout", SessionRequest(session),
                                    r.status, r.body, r.calls,
                                    r.sessions \ sessions,
                                    sessions \ r.sessions, NoAux))
       /\ loggedOut' = IF r.status = 200
                          /\ "SessionModel.deleteById" \in Range(r.calls)
                       THEN loggedOut \cup {session}
                       ELSE loggedOut
  /\ UNCHANGED <<users, nextSessionId, clock, vs, issued, hour, ret,
                 env, posts, nextUserId>>

\* ------------------------------------------------ DELETE /users/:id
deleteUser(id) ==
  LET r == UserModel_delete(id) IN
  IF ~r.deleted
  THEN [status |-> 404, body |-> ErrorBody("User not found"),
        users |-> users, sessions |-> sessions]
  ELSE [status |-> 200, body |-> [message |-> "User deleted successfully from database"],
        users |-> r.users, sessions |-> r.sessions]

DeleteUser(id) ==
  /\ LET r == deleteUser(id) IN
       /\ users' = r.users
       /\ sessions' = r.sessions
       /\ resp' = Observed(Response("delete-user", IdRequest(id), r.status,
                                    r.body, <<"UserModel.delete">>,
                                    r.sessions \ sessions,
                                    sessions \ r.sessions, NoAux))
  /\ UNCHANGED <<nextSessionId, clock, vs, issued, loggedOut, hour, ret,
                 env, posts, nextUserId>>

\* ------------------------------------------------ GET, POST, PUT /users
\* the requests carry first_name "fn" and last_name "ln"
UserRequest(id, email, password) ==
  [NoRequest EXCEPT !.id = id, !.email = email, !.password = password]

getUsers ==
  [status |-> 200, body |-> UserModel_findAll,
   calls |-> <<"UserModel.findAll">>]

GetUsers ==
  /\ LET r == getUsers IN
       resp' = Observed(Response("get-users", NoRequest, r.status, r.body,
                                 r.calls, {}, {}, NoAux))
  /\ UNCHANGED <<users, sessions, nextSessionId, clock, vs, issued, loggedOut,
                 hour, ret, env, posts, nextUserId>>

getUser(id) ==
  LET user == UserModel_findById(id) IN
  IF user = <<>>
  THEN [status |-> 404, body |-> ErrorBody("User not found"),
        calls |-> <<"UserModel.findById">>]
  ELSE [status |-> 200, body |-> user[1], calls |-> <<"UserModel.findById">>]

GetUser(id) ==
  /\ LET r == getUser(id) IN
       resp' = Observed(Response("get-user", IdRequest(id), r.status, r.body,
                                 r.calls, {}, {}, NoAux))
  /\ UNCHANGED <<users, sessions, nextSessionId, clock, vs, issued, loggedOut,
                 hour, ret, env, posts, nextUserId>>

\* lines 93-105: validation and the findByEmail query
postUsersStart(first_name, last_name, email, password) ==
  IF Falsy(first_name) \/ Falsy(last_name) \/ Falsy(email) \/ Falsy(password)
  THEN [next |-> "respond", status |-> 400,
        body |-> ErrorBody("Missing required fields: first_name, last_name, email, password"),
        calls |-> <<>>]
  ELSE IF UserModel_findByEmail(email) # <<>>
  THEN [next |-> "respond", status |-> 409,
        body |-> ErrorBody("Email already exists"),
        calls |-> <<"UserModel.findByEmail">>]
  ELSE [next |-> "create", status |-> 0, body |-> ErrorBody(""),
        calls |-> <<"UserModel.findByEmail">>]

\* lines 107-126: the password is hashed, UserModel.create answers or throws
postUsersCreate(first_name, last_name, email, password) ==
  LET credential == hashPassword(password, "s1")
      r == UserModel_create([first_name |-> first_name,
                             last_name |-> last_name, email |-> email,
                             password |-> credential.hash,
                             salt |-> credential.salt])
  IN  IF r.threw
      THEN [status |-> 500, body |-> ErrorBody("Failed to create user"),
            users |-> r.users, nextUserId |-> r.nextUserId]
      ELSE [status |-> 201,
            body |-> [message |-> "fn has been added to the Database",
                      user |-> r.user[1]],
            users |-> r.users, nextUserId |-> r.nextUserId]

\* every request that reaches its insert finds the serial below the bound
PostUsersStart(c, email, password) ==
  /\ posts[c].pc = "idle"
  /\ nextUserId + Cardinality({d \in Clients : posts[d].pc = "create"})
       <= MaxUserId
  /\ LET r == postUsersStart("fn", "ln", email, password) IN
       IF r.next = "respond"
       THEN /\ resp' = Observed(Response("post-users",
                                         UserRequest(0, email, password),
                                         r.status, r.body, r.calls, {}, {},
                                         [NoAux EXCEPT
                                            !.account = {u \in users :
                                                           u.email = email}]))
            /\ posts' = posts
       ELSE /\ posts' = [posts EXCEPT ![c] = [pc |-> "create", email |-> email,
                                              password |-> password]]
            /\ resp' = resp
  /\ UNCHANGED <<users, sessions, nextSessionId, clock, vs, issued, loggedOut,
                 hour, ret, env, nextUserId>>

PostUsersCreate(c) ==
  /\ posts[c].pc = "create"
  /\ LET r == postUsersCreate("fn", "ln", posts[c].email, posts[c].password) IN
       /\ users' = r.users
       /\ nextUserId' = r.nextUserId
       /\ resp' = Observed(Response("post-users",
                                    UserRequest(0, posts[c].email,
                                                posts[c].password),
                                    r.status, r.body,
                                    <<"UserModel.findByEmail", "hashPassword",
                                      "UserModel.create">>,
                                    r.users \ users, users \ r.users,
                                    [NoAux EXCEPT
                                       !.account = {u \in users :
                                                      u.email = posts[c].email}]))
  /\ posts' = [posts EXCEPT ![c] = IdlePost]
  /\ UNCHANGED <<sessions, nextSessionId, clock, vs, issued, loggedOut, hour,
                 ret, env>>

\* lines 214-251, with first_name and last_name left out of the body
putUser(id, email) ==
  LET existingUser == UserModel_findById(id) IN
  IF existingUser = <<>>
  THEN [status |-> 404, body |-> ErrorBody("User not found"),
        calls |-> <<"UserModel.findById">>, users |-> users]
  ELSE IF /\ ~Falsy(email)
          /\ email # existingUser[1].email
          /\ UserModel_findByEmail(email) # <<>>
  THEN [status |-> 409, body |-> ErrorBody("Email already exists"),
        calls |-> <<"UserModel.findById", "UserModel.findByEmail">>,
        users |-> users]
  ELSE
    LET r == UserModel_update(id, [email |-> email])
        calls == IF ~Falsy(email) /\ email # existingUser[1].email
                 THEN <<"UserModel.findById", "UserModel.findByEmail",
                        "UserModel.update">>
                 ELSE <<"UserModel.findById", "UserModel.update">>
    IN  IF r.threw
        THEN [status |-> 500, body |-> ErrorBody("Failed to update user"),
              calls |-> calls, users |-> r.users]
        ELSE [status |-> 200,
              body |-> [message |-> "User updated successfully",
                        user |-> r.user[1]],
              calls |-> calls, users |-> r.users]

PutUser(id, email) ==
  /\ LET r == putUser(id, email) IN
       /\ users' = r.users
       /\ resp' = Observed(Response("put-user", UserRequest(id, email, Undefined),
                                    r.status, r.body, r.calls,
                                    r.users \ users, users \ r.users, NoAux))
  /\ UNCHANGED <<sessions, nextSessionId, clock, vs, issued, loggedOut, hour,
                 ret, env, posts, nextUserId>>

\* ------------------------------------------------ middleware/auth.js
\* res.status(...).json(...) and return, or next()
validateApiKey(apiKey) ==
  LET expectedApiKey == env.API_KEY IN
  IF Falsy(expectedApiKey)
  THEN [next |-> FALSE, status |-> 500,
        body |-> ErrorBody("Server configuration error")]
  ELSE IF Falsy(apiKey)
  THEN [next |-> FALSE, status |-> 401,
        body |-> ErrorBody("Please provide an API key in the X-API-Key header")]
  ELSE IF apiKey # expectedApiKey
  THEN [next |-> FALSE, status |-> 401, body |-> ErrorBody("Invalid API key")]
  ELSE [next |-> TRUE, status |-> 0, body |-> ErrorBody("")]

\* the routes declared with validateApiKey before their handler
GatedRoutes ==
  {"login", "verify-session", "logout", "get-users", "post-users", "get-user",
   "put-user", "delete-user"}

\* the X-API-Key header: absent, the key, another string
ApiKeys == {Undefined, API_KEY, "wrong"}

\* no request is between its first and its last step
Quiet == vs.pc = "idle" /\ \A c \in Clients : posts[c].pc = "idle"

\* a request arrives at a gated route: the middleware answers it, or calls
\* next() and the handler is about to run
ValidateApiKey(route, apiKey) ==
  /\ Quiet
  /\ LET r == validateApiKey(apiKey) IN
       /\ ret' = [fn |-> "validateApiKey", route |-> route, apiKey |-> apiKey,
                  next |-> r.next]
       /\ resp' = IF r.next
                  THEN NoResponse
                  ELSE Response(route, NoRequest, r.status, r.body, <<>>, {}, {},
                                NoAux)
  /\ UNCHANGED <<users, sessions, nextSessionId, clock, vs, issued, loggedOut,
                 hour, env, posts, nextUserId>>

\* the middleware called next() for this route and the handler has not begun
Passed(route) ==
  /\ ret.fn = "validateApiKey"
  /\ ret.route = route
  /\ ret.next
  /\ resp.op = "none"
  /\ Quiet

\* no handler is about to run
NonePassed ==
  /\ Quiet
  /\ ~(ret.fn = "validateApiKey" /\ ret.next /\ resp.op = "none")

\* ------------------------------------------------ time
Tick ==
  /\ clock < MaxTime
  /\ clock' = clock + 1
  /\ UNCHANGED <<users, sessions, nextSessionId, vs, resp, issued, loggedOut, hour, ret,
                 env, posts, nextUserId>>

\* an hour passes
Hour ==
  /\ hour < MaxHour
  /\ hour' = hour + 1
  /\ UNCHANGED <<users, sessions, nextSessionId, clock, vs, resp, issued,
                 loggedOut, ret,
                 env, posts, nextUserId>>

\* ------------------------------------------------ the service
\* no function of utils.js has been called on its own
NoCall == [fn |-> "none"]

UserRow(id, email, credential) ==
  [id |-> id, email |-> email, first_name |-> "fn", last_name |-> "ln",
   password_hash |-> credential.hash, salt |-> credential.salt]

NoCredential == [hash |-> NullHash, salt |-> Null]

\* the users at start: one created with a password, one whose row predates
\* the password columns (password_hash and salt are null); the process is
\* started with apiKey as API_KEY
Boot(apiKey) ==
  /\ users = {UserRow(1, "a@x", hashPassword("pw1", "s1")),
              UserRow(2, "b@x", NoCredential)}
  /\ sessions = {}
  /\ nextSessionId = 1
  /\ clock = 0
  /\ vs = IdleVs
  /\ resp = NoResponse
  /\ issued = {}
  /\ loggedOut = {}
  /\ hour = 0
  /\ ret = NoCall
  /\ env = [API_KEY |-> apiKey]
  /\ posts = [c \in Clients |-> IdlePost]
  /\ nextUserId = 3

Init == Boot(API_KEY)

Next ==
  \/ \E email \in Emails \cup {Undefined}, password \in Passwords \cup {Undefined},
        iv \in Ivs, cipherOk \in CipherOutcomes :
       Login(email, password, iv, cipherOk)
  \/ \E session \in SessionInputs : VerifySessionStart(session)
  \/ VerifySessionLookup
  \/ VerifySessionCleanup
  \/ VerifySessionUser
  \/ \E session \in SessionInputs : Logout(session)
  \/ \E id \in 1..3 : DeleteUser(id)
  \/ Tick

Spec == Init /\ [][Next]_vars

\* the service within the hours after a login: the life of a token.  No week
\* passes, so clock compares with the dates of sessions as Date.now() does
TokenNext ==
  \/ \E email \in Emails \cup {Undefined}, password \in Passwords \cup {Undefined},
        iv \in Ivs, cipherOk \in CipherOutcomes :
       Login(email, password, iv, cipherOk)
  \/ \E token \in TokenInputs : VerifyToken(token)
  \/ \E session \in SessionInputs : Logout(session)
  \/ \E id \in 1..3 : DeleteUser(id)
  \/ Hour

TokenSpec == Init /\ [][TokenNext]_vars

\* ------------------------------------------------ utils.js called on its own
\* a call of encrypt, and of decrypt on its result, on a string made from its
\* result, or on a value of the caller's making
Call(stage, origin, x, iv, cipherOk, text, out) ==
  [fn |-> "crypto", stage |-> stage, origin |-> origin, x |-> x, iv |-> iv,
   cipherOk |-> cipherOk, text |-> text, out |-> out]

Payloads ==
  {Payload(sid, exp) : sid \in 1..MaxSessionId, exp \in {1, FarFuture}}
    \cup {DatePayload(sid, exp) : sid \in 1..MaxSessionId, exp \in {1, FarFuture}}
    \cup {EmptyObject, NullPayload}

AllIvs == Ivs \cup {"iv2"}

Marks ==
  {"extra", "no-iv", "no-ct", "iv-short", "iv-digit", "iv-brace", "ct-last"}

\* values of the caller's making: those of Forged, a number, and an array of
\* the bytes of a JSON text
Texts ==
  Forged \cup {Envelope("number", Null, Null, NullPayload),
               Envelope("bytes", Null, Null, Payload(1, FarFuture))}

EncryptCall(x, iv, cipherOk) ==
  /\ ret' = Call("encrypted", "encrypt", x, iv, cipherOk,
                 encrypt(x, iv, cipherOk), NullPayload)
  /\ UNCHANGED <<users, sessions, nextSessionId, clock, vs, resp, issued,
                 loggedOut, hour,
                 env, posts, nextUserId>>

\* the string encrypt returned is changed on its way back
Tamper(mark) ==
  /\ ret.fn = "crypto" /\ ret.stage = "encrypted" /\ ret.text.fmt = "cbc"
  /\ ret' = [ret EXCEPT !.stage = "tampered", !.origin = "tamper",
                        !.text = Marked(@, mark)]
  /\ UNCHANGED <<users, sessions, nextSessionId, clock, vs, resp, issued,
                 loggedOut, hour,
                 env, posts, nextUserId>>

Give(text) ==
  /\ ret' = Call("given", "caller", NullPayload, Null, TRUE, text, NullPayload)
  /\ UNCHANGED <<users, sessions, nextSessionId, clock, vs, resp, issued,
                 loggedOut, hour,
                 env, posts, nextUserId>>

DecryptCall ==
  /\ ret.fn = "crypto" /\ ret.stage # "decrypted"
  /\ ret' = [ret EXCEPT !.stage = "decrypted", !.out = decrypt(ret.text)]
  /\ UNCHANGED <<users, sessions, nextSessionId, clock, vs, resp, issued,
                 loggedOut, hour,
                 env, posts, nextUserId>>

CryptoNext ==
  \/ \E x \in Payloads, iv \in AllIvs, cipherOk \in BOOLEAN :
       EncryptCall(x, iv, cipherOk)
  \/ \E mark \in Marks : Tamper(mark)
  \/ \E text \in Texts : Give(text)
  \/ DecryptCall

CryptoSpec == Init /\ [][CryptoNext]_vars

\* a call of SessionModel: the id asked or made, the answer, the time of the
\* call, the rows of that id before it, the rows it added and removed, and
\* whether the call before it was the create of that id
StoreCall(fn, id, out, rows, added, removed, first) ==
  [fn |-> fn, id |-> id, out |-> out, at |-> clock, rows |-> rows,
   added |-> added, removed |-> removed, first |-> first]

\* SessionModel.create with a date of the caller's choice, for a user that
\* exists (user_id is a foreign key)
CreateCall(userId, expiresAt) ==
  /\ nextSessionId <= MaxSessionId
  /\ UserModel_findById(userId) # <<>>
  /\ LET r == SessionModel_create(userId, expiresAt) IN
       /\ sessions' = r.sessions
       /\ nextSessionId' = r.nextSessionId
       /\ ret' = StoreCall("SessionModel.create", r.session.id, TRUE, {},
                           r.sessions \ sessions, sessions \ r.sessions, FALSE)
  /\ UNCHANGED <<users, clock, vs, resp, issued, loggedOut, hour,
                 env, posts, nextUserId>>

IsValidCall(id) ==
  /\ LET r == SessionModel_isValid(id) IN
       /\ sessions' = r.sessions
       /\ ret' = StoreCall("SessionModel.isValid", id, r.valid,
                           {s \in sessions : s.id = id},
                           r.sessions \ sessions, sessions \ r.sessions,
                           ret.fn = "SessionModel.create" /\ ret.id = id)
  /\ UNCHANGED <<users, nextSessionId, clock, vs, resp, issued, loggedOut,
                 hour,
                 env, posts, nextUserId>>

DeleteByIdCall(id) ==
  /\ sessions' = SessionModel_deleteById(id)
  /\ ret' = StoreCall("SessionModel.deleteById", id, TRUE,
                      {s \in sessions : s.id = id},
                      sessions' \ sessions, sessions \ sessions', FALSE)
  /\ UNCHANGED <<users, nextSessionId, clock, vs, resp, issued, loggedOut,
                 hour,
                 env, posts, nextUserId>>

\* first: the call before it was a deleteExpired at the same time
DeleteExpiredCall ==
  /\ LET r == SessionModel_deleteExpired IN
       /\ sessions' = r.sessions
       /\ ret' = StoreCall("SessionModel.deleteExpired", 0, r.deleted, sessions,
                           r.sessions \ sessions, sessions \ r.sessions,
                           /\ ret.fn = "SessionModel.deleteExpired"
                           /\ ret.at = clock)
  /\ UNCHANGED <<users, nextSessionId, clock, vs, resp, issued, loggedOut,
                 hour,
                 env, posts, nextUserId>>

StoreNext ==
  \/ \E userId \in 1..3, expiresAt \in 0..(MaxTime + 1) :
       CreateCall(userId, expiresAt)
  \/ \E id \in 1..(MaxSessionId + 1) : IsValidCall(id)
  \/ \E id \in 1..(MaxSessionId + 1) : DeleteByIdCall(id)
  \/ DeleteExpiredCall
  \/ Tick

StoreSpec == Init /\ [][StoreNext]_vars

\* ------------------------------------------------ the service, left alone
\* what the running service does without a client or an operator: time
\* passes and a verify-session that began goes on to its response.  No timer,
\* startup hook or route calls SessionModel.deleteExpired
FairSpec ==
  /\ Spec
  /\ WF_vars(Tick)
  /\ WF_vars(VerifySessionLookup)
  /\ WF_vars(VerifySessionCleanup)
  /\ WF_vars(VerifySessionUser)

\* ------------------------------------------------ the /users routes
UsersNext ==
  \/ GetUsers
  \/ \E id \in 1..MaxUserId : GetUser(id)
  \/ \E c \in Clients, email \in Emails \cup {Undefined}, password \in {"pw1"} :
       PostUsersStart(c, email, password)
  \/ \E c \in Clients : PostUsersCreate(c)
  \/ \E id \in 1..MaxUserId, email \in Emails \cup {Undefined} : PutUser(id, email)
  \/ \E id \in 1..MaxUserId : DeleteUser(id)

UsersSpec == Init /\ [][UsersNext]_vars

\* ------------------------------------------------ the routes behind the gate
GateLogin(email, password, iv, cipherOk) ==
  Passed("login") /\ Login(email, password, iv, cipherOk)
GateVerifySession(session) ==
  Passed("verify-session") /\ VerifySessionStart(session)
GateLogout(session) == Passed("logout") /\ Logout(session)
GateGetUsers == Passed("get-users") /\ GetUsers
GateGetUser(id) == Passed("get-user") /\ GetUser(id)
GatePostUsers(email, password) ==
  Passed("post-users") /\ PostUsersStart("c1", email, password)
GatePutUser(id, email) == Passed("put-user") /\ PutUser(id, email)
GateDeleteUser(id) == Passed("delete-user") /\ DeleteUser(id)
\* router.post("/verify-token", (req, res) => ...): no middleware
OpenVerifyToken(token) == NonePassed /\ VerifyToken(token)

\* the process is started with or without API_KEY
GateInit == \E apiKey \in {API_KEY, Undefined} : Boot(apiKey)

\* what the clients of the gated service send: one request of each kind that
\* its handler serves, and for login and POST /users one it refuses
GateSessions == {MissingSession} \cup {i.session : i \in issued}

\* no week passes: no row expires, and the clean-up step of verify-session is
\* not reached
GateNext ==
  \/ \E route \in GatedRoutes, apiKey \in ApiKeys : ValidateApiKey(route, apiKey)
  \/ \E email \in {"a@x", Undefined}, password \in {"pw1"},
        iv \in Ivs, cipherOk \in CipherOutcomes :
       GateLogin(email, password, iv, cipherOk)
  \/ \E session \in GateSessions : GateVerifySession(session)
  \/ VerifySessionLookup
  \/ VerifySessionUser
  \/ \E session \in GateSessions : GateLogout(session)
  \/ GateGetUsers
  \/ \E id \in {1} : GateGetUser(id)
  \/ \E email \in {"zz@x", Undefined}, password \in {"pw1"} :
       GatePostUsers(email, password)
  \/ PostUsersCreate("c1")
  \/ \E id \in {1}, email \in {Undefined} : GatePutUser(id, email)
  \/ \E id \in {2} : GateDeleteUser(id)
  \/ \E token \in TokenInputs : OpenVerifyToken(token)

GateSpec == GateInit /\ [][GateNext]_vars

\* ------------------------------------------------ the service with churn
\* an operator runs SessionModel.deleteExpired
DeleteExpired ==
  /\ sessions' = SessionModel_deleteExpired.sessions
  /\ UNCHANGED <<users, nextSessionId, clock, vs, resp, issued, loggedOut,
                 hour, ret, env, posts, nextUserId>>

\* the requests that name a session a login returned, from the first user of
\* the seed and from a user created as the service runs; users are created
\* and deleted, rows are swept
ChurnNext ==
  \/ \E email \in {"a@x", "zz@x"}, password \in {"pw1"}, iv \in Ivs,
        cipherOk \in CipherOutcomes :
       Login(email, password, iv, cipherOk)
  \/ \E session \in {i.session : i \in issued} : VerifySessionStart(session)
  \/ VerifySessionLookup
  \/ VerifySessionCleanup
  \/ VerifySessionUser
  \/ \E session \in {i.session : i \in issued} : Logout(session)
  \/ \E id \in {1, 3} : DeleteUser(id)
  \/ \E email \in {"zz@x"}, password \in {"pw1"} :
       PostUsersStart("c1", email, password)
  \/ PostUsersCreate("c1")
  \/ DeleteExpired
  \/ Tick

ChurnSpec == Init /\ [][ChurnNext]_vars


\* ================================================== the claims
IsIssued(session) == \E i \in issued : i.session = session
IssuedAs(session) == CHOOSE i \in issued : i.session = session
SessionLoggedOut(sid) ==
  \E e \in loggedOut : e.payload.kind = "session" /\ e.payload.sessionId = sid
UserExists(id) == \E u \in users : u.id = id
Called(name) == name \in Range(resp.calls)
Failed(status, msg) == resp.status = status /\ resp.body = ErrorBody(msg)
\* the verify-session request passed the envelope's own expiry check
PassedEnvelopeCheck ==
  /\ resp.op = "verify-session"
  /\ resp.aux.dec.kind = "session"
  /\ ~resp.aux.envExpired

\* C1: a login with the email of a user and the password stored for that user
\* answers 200 with an envelope that decrypts to the session row it created
\* for that user; and a verify-session of an envelope a login returned, run
\* before the envelope's expiry while the user exists and no logout has named
\* its session, answers 200 with the id of the user the login authenticated.
C1_LoginRoundTrip ==
  /\ resp.op = "login" =>
       \A u \in resp.aux.account :
         (u.salt # Null /\ u.password_hash = PBKDF2(resp.req.password, u.salt))
         => /\ resp.status = 200
            /\ \E row \in resp.added :
                 /\ row.user_id = u.id
                 /\ decrypt(resp.body.session) = Payload(row.id, row.expires_at)
  /\ (resp.op = "verify-session" /\ IsIssued(resp.req.session)) =>
       LET i == IssuedAs(resp.req.session) IN
         (resp.aux.live /\ ~SessionLoggedOut(i.sessionId) /\ UserExists(i.userId))
         => resp.status = 200 /\ resp.body.userId = i.userId

C1_Witness ==
  /\ resp.op = "verify-session"
  /\ IsIssued(resp.req.session)
  /\ resp.aux.live
  /\ resp.status = 200
  /\ resp.body.userId = IssuedAs(resp.req.session).userId

\* C2: a login with the email of a user that has a stored hash and salt and
\* with a password that does not match them answers 401 'Invalid password',
\* changes no session row and signs or encrypts nothing; a login answers 200
\* only when the stored hash is the one derived from the password given and
\* the stored salt.
C2_WrongPassword ==
  resp.op = "login" =>
    \A u \in resp.aux.account :
      /\ (/\ ~Falsy(resp.req.password)
          /\ u.salt # Null
          /\ u.password_hash # PBKDF2(resp.req.password, u.salt))
         => /\ Failed(401, "Invalid password")
            /\ resp.added = {} /\ resp.removed = {}
            /\ ~Called("jwt.sign") /\ ~Called("encrypt")
            /\ ~Called("SessionModel.create")
      /\ resp.status = 200 =>
           u.password_hash = PBKDF2(resp.req.password, u.salt)

C2_Witness ==
  /\ resp.op = "login"
  /\ \E u \in resp.aux.account :
       /\ ~Falsy(resp.req.password)
       /\ u.salt # Null
       /\ u.password_hash # PBKDF2(resp.req.password, u.salt)
  /\ resp.status = 401

\* C3 as stated: for a decryptable envelope whose own expiry is in the future,
\* verify-session answers 401 'Session not found' and changes no row when no
\* row of its session id exists, and does so in every request that begins
\* after a logout of that envelope answered 200.
C3_Original ==
  PassedEnvelopeCheck =>
    /\ resp.aux.lookup = {} =>
         Failed(401, "Session not found") /\ resp.added = {} /\ resp.removed = {}
    /\ resp.aux.afterLogout => Failed(401, "Session not found")

\* C3 for the envelopes a login returned: the same, the part about logout
\* for those envelopes only.
C3_SessionNotFound ==
  PassedEnvelopeCheck =>
    /\ resp.aux.lookup = {} =>
         Failed(401, "Session not found") /\ resp.added = {} /\ resp.removed = {}
    /\ (resp.aux.afterLogout /\ IsIssued(resp.req.session)) =>
         Failed(401, "Session not found")

C3_Witness ==
  /\ PassedEnvelopeCheck
  /\ IsIssued(resp.req.session)
  /\ resp.aux.afterLogout
  /\ Failed(401, "Session not found")

\* C4: a login without email or password, and a verify-session or logout
\* without session, is answered 400 with no call made to the stores, to the
\* password derivation, to decrypt or to the token signer, and no row changed.
C4_ValidationFirst ==
  (\/ resp.op = "login" /\ (Falsy(resp.req.email) \/ Falsy(resp.req.password))
   \/ resp.op \in {"verify-session", "logout"} /\ resp.req.session = MissingSession)
  => /\ resp.status = 400
     /\ resp.calls = <<>>
     /\ resp.added = {} /\ resp.removed = {}

C4_Witness ==
  /\ resp.op = "logout"
  /\ resp.req.session = MissingSession
  /\ resp.status = 400
  /\ sessions # {}

\* C5: a login that answers 200 added exactly one row, of the authenticated
\* user and expiring SESSION_TTL after the login, and removed or changed none;
\* no two logins got the same session id, and every envelope a login returned
\* still has its row while it is unexpired, its user exists and no logout has
\* named it.
C5_OneRowPerLogin ==
  /\ (resp.op = "login" /\ resp.status = 200) =>
       /\ resp.removed = {}
       /\ Cardinality(resp.added) = 1
       /\ \A row \in resp.added :
            /\ row.expires_at = resp.aux.at + SESSION_TTL
            /\ \E u \in resp.aux.account : row.user_id = u.id
  /\ \A i, j \in issued : i.sessionId = j.sessionId => i = j
  /\ \A i \in issued :
       (~SessionLoggedOut(i.sessionId) /\ UserExists(i.userId)
        /\ clock < i.expiresAt)
       => SessionRow(i.sessionId, i.userId, i.expiresAt) \in sessions

C5_Witness ==
  /\ resp.op = "login" /\ resp.status = 200
  /\ \E s, t \in sessions : s # t /\ s.user_id = t.user_id
  /\ Cardinality(issued) = 2

\* C6: the body of a login response has the fields user {id}, token, session
\* and sessionExpires when the status is 200 and the field error otherwise;
\* the body of a verify-session response has userId, user {id, email,
\* first_name, last_name} and expiresAt when the status is 200 and the field
\* error otherwise: password_hash and salt are in none.
C6_NoCredentialInBody ==
  /\ resp.op = "login" =>
       IF resp.status = 200
       THEN /\ DOMAIN resp.body = {"user", "token", "session", "sessionExpires"}
            /\ DOMAIN resp.body.user = {"id"}
       ELSE DOMAIN resp.body = {"error"}
  /\ resp.op = "verify-session" =>
       IF resp.status = 200
       THEN /\ DOMAIN resp.body = {"userId", "user", "expiresAt"}
            /\ DOMAIN resp.body.user = {"id", "email", "first_name", "last_name"}
       ELSE DOMAIN resp.body = {"error"}

C6_Witness ==
  /\ resp.op = "verify-session"
  /\ resp.status = 200
  /\ \E u \in users : u.id = resp.body.userId /\ u.salt # Null

\* C7: a verify-session whose envelope decrypts to a date at or before the
\* time of the check answers 401 'Session expired' after the call of decrypt
\* alone, and removes no row.
C7_EnvelopeExpired ==
  (resp.op = "verify-session" /\ resp.aux.dec.kind = "session"
   /\ resp.aux.envExpired)
  => /\ Failed(401, "Session expired")
     /\ resp.calls = <<"decrypt">>
     /\ resp.added = {} /\ resp.removed = {}

C7_Witness ==
  /\ resp.op = "verify-session"
  /\ resp.aux.envExpired
  /\ resp.status = 401
  /\ \E s \in sessions : s.id = resp.aux.dec.sessionId /\ s.expires_at <= clock

\* C8: a verify-session that passed the envelope check and met a row whose
\* expires_at was at or before the time of the row check answers 401 'Session
\* expired' after deleteById, with no user query; it removed no row but that
\* one, and no row of that id is in the store.
C8_CleanupOnRead ==
  (PassedEnvelopeCheck /\ resp.aux.lookup # {} /\ resp.aux.rowExpired)
  => /\ Failed(401, "Session expired")
     /\ Called("SessionModel.deleteById")
     /\ ~Called("UserModel.findById")
     /\ resp.added = {}
     /\ resp.removed \subseteq resp.aux.lookup
     /\ \A s \in sessions : s.id # resp.aux.dec.sessionId

C8_Witness ==
  /\ PassedEnvelopeCheck
  /\ resp.aux.rowExpired
  /\ resp.status = 401
  /\ resp.removed # {}
  /\ resp.removed = resp.aux.lookup
  /\ sessions # {}

\* C9: a verify-session that met an unexpired row answers by the user whose id
\* is the row's user_id: 401 'User not found' when the user query met none,
\* and otherwise 200 with that user's id and the row's expires_at.
C9_UserOfRow ==
  (PassedEnvelopeCheck /\ resp.aux.lookup # {} /\ ~resp.aux.rowExpired)
  => \A row \in resp.aux.lookup :
       IF resp.aux.account = {}
       THEN Failed(401, "User not found")
       ELSE /\ resp.status = 200
            /\ resp.body.userId = row.user_id
            /\ resp.body.user.id = row.user_id
            /\ resp.body.expiresAt = row.expires_at
            /\ \A u \in resp.aux.account : u.id = row.user_id

C9_Witness ==
  /\ PassedEnvelopeCheck
  /\ resp.status = 200
  /\ resp.aux.lookup # {}
  /\ resp.body.expiresAt # resp.aux.dec.expiresAt

C11_LogoutUndecodable ==
  (/\ resp.op = "logout"
   /\ resp.req.session # MissingSession
   /\ decrypt(resp.req.session).kind = "null")
  => /\ resp.status = 200
     /\ resp.body = [message |-> "Logged out successfully"]
     /\ resp.calls = <<"decrypt">>
     /\ resp.added = {} /\ resp.removed = {}

C11_Witness ==
  /\ resp.op = "logout"
  /\ resp.req.session.fmt = "cbc"
  /\ resp.req.session.key # SESSION_SECRET
  /\ resp.status = 200
  /\ \E s \in sessions : s.id = resp.req.session.payload.sessionId

\* C12: a logout whose session value decrypt returns a value for answers 200,
\* whether or not a row of the payload's sessionId was in the store; it adds
\* no row, removes no row of another id, and leaves no row of that id.
C12_LogoutDeletesOne ==
  (/\ resp.op = "logout"
   /\ resp.req.session # MissingSession
   /\ decrypt(resp.req.session).kind # "null")
  => /\ resp.status = 200
     /\ resp.added = {}
     /\ \A s \in resp.removed : s.id = decrypt(resp.req.session).sessionId
     /\ \A s \in sessions : s.id # decrypt(resp.req.session).sessionId

\* C19: a login with the email of a user and a non-empty password never
\* answers 500, and answers 401 when the stored hash is not the one derived
\* from the password and the stored salt, a null hash and salt included.
C19_NoThrowOnNullCredential ==
  (resp.op = "login" /\ ~Falsy(resp.req.password))
  => \A u \in resp.aux.account :
       /\ resp.status # 500
       /\ (u.salt = Null \/ u.password_hash # PBKDF2(resp.req.password, u.salt))
          => resp.status = 401

\* C13: verify-token answers 200 exactly when its token is signed with the
\* server's key and the time is before the token's exp, with the token's id
\* and exp in the body, whatever the stores hold, and answers 401 'Invalid
\* token' otherwise; it calls no store and changes no row.
C13_StatelessToken ==
  resp.op = "verify-token" =>
    LET token == resp.req.token IN
      /\ resp.status = 200 <=>
           (/\ token.kind = "jwt" /\ token.key = JWT_SECRET
            /\ resp.aux.now < token.exp)
      /\ resp.status = 200 =>
           resp.body = [userId |-> token.id, expiresAt |-> token.exp]
      /\ resp.status # 200 => Failed(401, "Invalid token")
      /\ resp.calls = <<"jwt.verify">>
      /\ resp.added = {} /\ resp.removed = {}

C13_Witness ==
  /\ resp.op = "verify-token"
  /\ resp.status = 200
  /\ \E i \in issued : i.token = resp.req.token /\ i.session \in loggedOut
  /\ ~UserExists(resp.req.token.id)
  /\ sessions = {}

Decrypted(origin) ==
  ret.fn = "crypto" /\ ret.stage = "decrypted" /\ ret.origin = origin

Malformed(text) ==
  \/ text.fmt \in {"number", "bytes"}
  \/ text.fmt = "cbc" /\ text.key # SESSION_SECRET
  \/ text.fmt = "cbc"
       /\ text.mark \in {"extra", "no-iv", "no-ct", "iv-short", "ct-last"}
  \/ text.payload.kind = "invalid"

\* C15: decrypt returns null for every input that is not a well-formed
\* envelope.
C15_NullOnMalformed ==
  (ret.fn = "crypto" /\ ret.stage = "decrypted" /\ Malformed(ret.text))
  => ret.out = NullPayload

\* C16: decrypt returns null for every string made from a string encrypt
\* returned by changing its IV part or its ciphertext part.
C16_TamperFailsClosed ==
  Decrypted("tamper") => ret.out = NullPayload

\* C17: decrypt of a string without ':' is the value of the JSON text it is
\* the base64 of, null when that text is not JSON, with no key involved; a
\* string with ':' is deciphered, so one made under another key gives null
\* whatever its plaintext.
C17_FallbackMode ==
  (ret.fn = "crypto" /\ ret.stage = "decrypted") =>
    /\ ret.text.fmt = "b64" => ret.out = JSON_parse(ret.text.payload)
    /\ (ret.text.fmt = "cbc" /\ ret.text.key # SESSION_SECRET)
       => ret.out = NullPayload

C17_Witness ==
  /\ Decrypted("caller")
  /\ ret.text.fmt = "b64"
  /\ ret.text.key = Null
  /\ ret.out.kind = "session"

\* C18: every string encrypt returns is ivHex:ciphertextHex, with the IV drawn
\* for the call and the payload's JSON text encrypted under the server's key.
C18_EnvelopeForm ==
  (ret.fn = "crypto" /\ ret.stage = "encrypted") =>
    /\ ret.text.fmt = "cbc"
    /\ ret.text.key = SESSION_SECRET
    /\ ret.text.iv = ret.iv
    /\ ret.text.payload = JSON_stringify(ret.x)

\* C20: isValid(id) answers true exactly when a row of that id is in the
\* store with expires_at after the time of the call; it answers false in the
\* first call after the create of a row whose expires_at is not after that
\* time; and it adds and removes no row.
C20_IsValid ==
  ret.fn = "SessionModel.isValid" =>
    /\ ret.out <=> \E s \in ret.rows : s.expires_at > ret.at
    /\ (ret.first /\ \E s \in ret.rows : s.expires_at <= ret.at) => ~ret.out
    /\ ret.added = {} /\ ret.removed = {}
    /\ ret.rows \subseteq sessions

C20_Witness ==
  /\ ret.fn = "SessionModel.isValid"
  /\ ret.first
  /\ ~ret.out
  /\ \E s \in ret.rows : s.expires_at = ret.at
  /\ ret.rows \subseteq sessions

\* C21: deleteExpired removes exactly the rows whose expires_at is at or
\* before the time of the call and returns their number; a second call at the
\* same time removes none; and while the time is that of the call, every row
\* left is one isValid answers true for.
C21_SweepExpired ==
  ret.fn = "SessionModel.deleteExpired" =>
    /\ ret.removed = {s \in ret.rows : s.expires_at <= ret.at}
    /\ ret.added = {}
    /\ ret.out = Cardinality(ret.removed)
    /\ ret.first => ret.out = 0
    /\ ret.at = clock => \A s \in sessions : SessionModel_isValid(s.id).valid

\* C24: a DELETE /users/:id that answers 200 removed the user and no session
\* row of another user, and leaves no row of that user; every session row
\* names a user that exists; and a verify-session of an envelope a login
\* returned to a user that no longer exists does not answer 200.
C24_DeleteCascade ==
  /\ (resp.op = "delete-user" /\ resp.status = 200) =>
       /\ ~UserExists(resp.req.id)
       /\ \A s \in resp.removed : s.user_id = resp.req.id
       /\ \A s \in sessions : s.user_id # resp.req.id
       /\ resp.added = {}
  /\ \A s \in sessions : UserExists(s.user_id)
  /\ (resp.op = "verify-session" /\ IsIssued(resp.req.session)) =>
       (~UserExists(IssuedAs(resp.req.session).userId) => resp.status # 200)

C24_Witness ==
  /\ resp.op = "verify-session"
  /\ IsIssued(resp.req.session)
  /\ resp.aux.live
  /\ ~SessionLoggedOut(IssuedAs(resp.req.session).sessionId)
  /\ ~UserExists(IssuedAs(resp.req.session).userId)
  /\ Failed(401, "Session not found")
  /\ UserExists(2)

\* C27: verify-session answers 200 only for a session string a login
\* returned, and a logout removes a row only for such a string.
C27_FailClosed ==
  /\ (resp.op = "verify-session" /\ resp.status = 200) =>
       IsIssued(resp.req.session)
  /\ (resp.op = "logout" /\ resp.removed # {}) => IsIssued(resp.req.session)

\* C28: an envelope a login returned carries the expires_at of its row for
\* as long as the row exists; a verify-session of such an envelope removes a
\* row only when the envelope's date had not passed at the envelope check and
\* the row's date had passed at the row check, and one that finds the
\* envelope's date passed calls neither findById nor deleteById.
C28_CleanupOnCrossing ==
  /\ \A i \in issued :
       /\ decrypt(i.session) = Payload(i.sessionId, i.expiresAt)
       /\ \A s \in sessions : s.id = i.sessionId => s.expires_at = i.expiresAt
  /\ (resp.op = "verify-session" /\ IsIssued(resp.req.session)) =>
       /\ (resp.removed # {} \/ Called("SessionModel.deleteById")) =>
            /\ ~resp.aux.envExpired
            /\ resp.aux.rowExpired
            /\ \A s \in resp.aux.lookup :
                 s.expires_at = resp.aux.dec.expiresAt
       /\ resp.aux.envExpired =>
            /\ resp.removed = {}
            /\ ~Called("SessionModel.findById")
            /\ ~Called("SessionModel.deleteById")

C28_Witness ==
  /\ resp.op = "verify-session"
  /\ IsIssued(resp.req.session)
  /\ resp.removed # {}
  /\ ~resp.aux.envExpired
  /\ resp.aux.rowExpired

\* C29: a verify-session or a logout of an envelope a login returned never
\* answers 500, whatever ran between its steps; each removes at most one row
\* and a removed row does not come back (ids are not given out twice); and a
\* verify-session that began after a logout of the envelope answered 200 does
\* not answer 200.
C29_VerifyLogoutRace ==
  /\ (resp.op \in {"verify-session", "logout"} /\ IsIssued(resp.req.session)) =>
       /\ resp.status # 500
       /\ Cardinality(resp.removed) <= 1
       /\ resp.removed \cap sessions = {}
       /\ \A s \in resp.removed :
            s.id = IssuedAs(resp.req.session).sessionId
       /\ (resp.op = "verify-session" /\ resp.aux.afterLogout) =>
            resp.status # 200
  /\ \A s \in sessions : s.id < nextSessionId
  /\ \A i \in issued : i.sessionId < nextSessionId

\* a verify-session that read the row before a logout removed it answers 200
C29_Witness ==
  /\ resp.op = "verify-session"
  /\ IsIssued(resp.req.session)
  /\ resp.req.session \in loggedOut
  /\ ~resp.aux.afterLogout
  /\ resp.status = 200
  /\ \A s \in sessions : s.id # IssuedAs(resp.req.session).sessionId

\* C22: every response of a route other than the root follows a decision of
\* validateApiKey on that request, and when the key given is not API_KEY (or
\* API_KEY is not set) the response is 401 (or 500) and no store or crypto
\* call was made and no row changed.
C22_ApiKeyGate ==
  resp.op # "none" =>
    /\ ret.fn = "validateApiKey"
    /\ ret.route = resp.op
    /\ (Falsy(env.API_KEY) \/ ret.apiKey # env.API_KEY) =>
         /\ resp.status = IF Falsy(env.API_KEY) THEN 500 ELSE 401
         /\ resp.calls = <<>>
         /\ resp.added = {} /\ resp.removed = {}

\* C23: under fair scheduling of the service's own steps, a session row whose
\* date has passed is eventually gone.
C23_ExpiredEventuallyRemoved ==
  \A id \in 1..MaxSessionId :
    (\E s \in sessions : s.id = id /\ s.expires_at <= clock)
      ~> (\A s \in sessions : s.id # id)

\* C25: a POST /users whose email is the email of an existing user when its
\* insert (or, if it got no further, its lookup) runs answers 409 'Email
\* already exists' and adds no user; no two users share an email.
C25_DuplicateEmail ==
  /\ (/\ resp.op = "post-users"
      /\ ~Falsy(resp.req.email) /\ ~Falsy(resp.req.password)
      /\ resp.aux.account # {})
     => Failed(409, "Email already exists") /\ resp.added = {}
  /\ \A u, v \in users : u.email = v.email => u = v

\* C26: a verify-session of an envelope a login returned to user u answers
\* 200 only with the id of u, and the row of that envelope is a row of u.
C26_NeverAnotherUser ==
  /\ \A i \in issued :
       (resp.op = "verify-session" /\ resp.req.session = i.session
        /\ resp.status = 200)
       => resp.body.userId = i.userId /\ resp.body.user.id = i.userId
  /\ \A i \in issued : \A s \in sessions :
       s.id = i.sessionId => s.user_id = i.userId

C26_Witness ==
  /\ resp.op = "verify-session"
  /\ IsIssued(resp.req.session)
  /\ resp.status = 200
  /\ resp.body.userId = IssuedAs(resp.req.session).userId
  /\ \E i \in issued : i.userId # resp.body.userId
  /\ loggedOut # {}
  /\ ~UserExists(1)

\* C30: the body of a GET /users, GET /users/:id, POST /users or PUT
\* /users/:id that succeeds holds user objects of the fields id, first_name,
\* last_name, email, created_at and updated_at only.
UserShape ==
  {"id", "first_name", "last_name", "email", "created_at", "updated_at"}

C30_UserShape ==
  /\ (resp.op = "get-users" /\ resp.status = 200) =>
       \A u \in resp.body : DOMAIN u \subseteq UserShape
  /\ (resp.op = "get-user" /\ resp.status = 200) =>
       DOMAIN resp.body \subseteq UserShape
  /\ (resp.op \in {"post-users", "put-user"} /\ resp.status \in {200, 201}) =>
       DOMAIN resp.body.user \subseteq UserShape

====
